---- MODULE Spec2Model ----
(***************************************************************************)
(* Email fetch service: the dedup state store (app/state.py), the batch    *)
(* call fetch_emails (app/main.py), identity derivation (app/parser.py)    *)
(* and the reply-text extractor (app/utils.py).                            *)
(*                                                                         *)
(* Strings are sequences of one-character strings.  An identity key is a   *)
(* string; the empty key is <<>>.  A document of the state file is a       *)
(* record whose field seen is the set of the keys of its "seen" list.      *)
(***************************************************************************)
EXTENDS Integers, Sequences, FiniteSets, TLC

\* ------------------------------------------------------------------ bounds
\* add_many calls made in one behaviour, over all processes
MaxCalls == 2
\* injected filesystem errors and process crashes in one behaviour
MaxFaults == 1

\* the processes sharing one state path
Procs == {1, 2}

\* identity keys the store is exercised with: the empty string and two
\* non-empty keys
StoreKeys == {<<>>, <<"a">>, <<"b">>}

\* ------------------------------------------------------------------ state
VARIABLES
  file,     \* content of the state file (state.json)
  tmp,      \* content of the temporary file (state.json.tmp)
  lock,     \* 0: no lock file (state.lock); p: the lock file created by p
  pc,       \* position of each process
  snap,     \* self._data of each process's StateStore, its "seen" as a set
  keys,     \* add_many: the filtered key list of the current call
  buf,      \* _write: the data being written
  fd,       \* _write: what the process's open descriptor refers to
  err,      \* add_many: an exception is propagating through the finally block
  outcome,  \* how the last call of each process ended
  calls,    \* add_many calls made so far
  faults,   \* injected errors and crashes so far
  eff,      \* history: what the current call has written ("none","tmp","file")
  snap0,    \* history: snap at the start of the current call
  rep,      \* history: the current call repeats the previous successful one
  last,     \* history: keys of the previous successful add_many, no writer since
  passed,   \* history: non-empty keys passed to any add_many call so far
  stored,   \* history: keys written by add_many calls that returned normally
  failed,   \* history: some call has raised or some process has crashed
  file1,    \* history: the state file when the previous successful add_many returned
  init0     \* history: "seen" set of the state file in the initial state

VARIABLES
  bpc,      \* fetch_emails: position of the batch call in progress
  since,    \* req.since
  until,    \* req.until
  cands,    \* the (uid, raw, internaldate) triples the upstream source supplied
  idx,      \* the loop's position in cands
  items,    \* items
  newkeys,  \* newly_seen_keys
  log       \* history: the 200 responses so far (window and uids of the items)

bvars == <<bpc, since, until, cands, idx, items, newkeys, log>>

VARIABLES
  tpc,      \* extract_latest_reply_text: position
  body,     \* body_text
  cut,      \* cut_idx, None written -1
  top,      \* top_part
  result    \* the returned text

tvars == <<tpc, body, cut, top, result>>

svars == <<file, tmp, lock, pc, snap, keys, buf, fd, err, outcome, calls,
           faults, eff, snap0, rep, last, passed, stored, failed, file1, init0>>

vars == <<svars, bvars, tvars>>

\* ------------------------------------------------------- file contents
Absent  == [kind |-> "absent",  seen |-> {}]
\* an empty, truncated or otherwise incomplete JSON text
Partial == [kind |-> "partial", seen |-> {}]
Doc(S)  == [kind |-> "doc",     seen |-> S]

\* no StateStore instance yet / no previous call: a set no key set equals
NotOpen == {<<"?">>}
NoKeys  == {<<"?">>}

\* ------------------------------------------------------- helpers of the model
Upd(f, p, v) == [f EXCEPT ![p] = v]

\* a call of p has ended: its outcome is recorded
Return(p, how) ==
  /\ outcome' = Upd(outcome, p, how)
  /\ failed' = (failed \/ how # "ok")

\* history: a change of the state file by p ends "no other writer in between"
\* for every other process
Foreign(p, newfile) ==
  [q \in Procs |-> IF q # p /\ newfile # file THEN NoKeys ELSE last[q]]

\* ------------------------------------------------------------------ _write
\* open(tmp, "w"): creates the temporary file or truncates the existing one
write_open(p, next) ==
  /\ tmp' = Partial
  /\ fd' = Upd(fd, p, "tmp")
  /\ pc' = Upd(pc, p, next)
  /\ eff' = Upd(eff, p, IF eff[p] = "file" THEN "file" ELSE "tmp")
  /\ UNCHANGED <<file, lock, last>>

\* what the file behind p's descriptor holds
Target(p) == IF fd[p] = "tmp" THEN tmp ELSE IF fd[p] = "file" THEN file ELSE Absent

\* json.dump and close: the text reaches the file the descriptor refers to.
\* When another writer has written that file since p truncated it, p's text
\* overlays the other one: the result is p's document or a corrupt mix.
DumpResults(p) ==
  IF Target(p).kind = "doc" THEN {Doc(buf[p]), Partial} ELSE {Doc(buf[p])}

write_dump(p, next) ==
  /\ \E c \in DumpResults(p) :
       /\ tmp' = IF fd[p] = "tmp" THEN c ELSE tmp
       /\ file' = IF fd[p] = "file" THEN c ELSE file
       /\ eff' = Upd(eff, p, IF fd[p] = "file" /\ c # file THEN "file" ELSE eff[p])
  /\ fd' = Upd(fd, p, "none")
  /\ pc' = Upd(pc, p, next)
  /\ last' = Foreign(p, file')
  /\ UNCHANGED lock

\* os.replace(tmp, path): the temporary file becomes the state file; open
\* descriptors follow the file they were opened on
Renamed(q) == IF fd[q] = "tmp" THEN "file" ELSE IF fd[q] = "file" THEN "gone" ELSE fd[q]

write_replace(p, next) ==
  /\ tmp.kind # "absent"
  /\ file' = tmp
  /\ tmp' = Absent
  /\ fd' = [q \in Procs |-> Renamed(q)]
  /\ pc' = Upd(pc, p, next)
  /\ eff' = Upd(eff, p, IF tmp # file THEN "file" ELSE eff[p])
  /\ last' = Foreign(p, tmp)
  /\ UNCHANGED lock

\* (mutant) no finally block: the exception leaves add_many at once
RaiseNoFinally(p) ==
  /\ pc' = Upd(pc, p, IF pc[p] \in {"c_open", "c_dump", "c_replace", "c_read"}
                       THEN "new" ELSE "idle")
  /\ Return(p, "ioerror")
  /\ UNCHANGED err

\* an exception leaves _write: the caller's constructor fails, or add_many's
\* finally block runs
Raise(p) ==
  IF pc[p] \in {"c_open", "c_dump", "c_replace", "c_read"}
  THEN /\ pc' = Upd(pc, p, "new")
       /\ Return(p, "ioerror")
       /\ UNCHANGED err
  ELSE /\ pc' = Upd(pc, p, "a_release")
       /\ err' = Upd(err, p, TRUE)
       /\ UNCHANGED <<outcome, failed>>

\* ------------------------------------------------------ StateStore.__init__
\* if not self.path.exists(): self._write({"version": 1, "seen": []})
StateStore_init(p) ==
  /\ pc[p] = "new"
  /\ pc' = Upd(pc, p, IF file.kind = "absent" THEN "c_open" ELSE "c_read")
  /\ buf' = Upd(buf, p, {})
  /\ eff' = Upd(eff, p, "none")
  /\ UNCHANGED <<file, tmp, lock, snap, keys, fd, err, outcome, calls, faults,
                 snap0, rep, last, passed, stored, failed, file1, init0, bvars, tvars>>

init_open(p) ==
  /\ pc[p] = "c_open"
  /\ write_open(p, "c_dump")
  /\ UNCHANGED <<snap, keys, buf, err, outcome, calls, faults, snap0, rep,
                 passed, stored, failed, file1, init0, bvars, tvars>>

init_dump(p) ==
  /\ pc[p] = "c_dump"
  /\ write_dump(p, "c_replace")
  /\ UNCHANGED <<snap, keys, buf, err, outcome, calls, faults, snap0, rep,
                 passed, stored, failed, file1, init0, bvars, tvars>>

\* os.replace raises FileNotFoundError when the temporary file is gone
init_replace(p) ==
  /\ pc[p] = "c_replace"
  /\ IF tmp.kind = "absent"
     THEN /\ Raise(p)
          /\ UNCHANGED <<file, tmp, lock, fd, eff, last>>
     ELSE /\ write_replace(p, "c_read")
          /\ UNCHANGED <<err, outcome, failed>>
  /\ UNCHANGED <<snap, keys, buf, calls, faults, snap0, rep, passed, stored, file1, init0, bvars, tvars>>

\* self._data = self._read(): json.load raises on an incomplete text
init_read(p) ==
  /\ pc[p] = "c_read"
  /\ IF file.kind = "doc"
     THEN /\ snap' = Upd(snap, p, file.seen)
          /\ pc' = Upd(pc, p, "idle")
          /\ Return(p, "ok")
          /\ UNCHANGED err
     ELSE /\ Raise(p)
          /\ UNCHANGED snap
  /\ UNCHANGED <<file, tmp, lock, keys, buf, fd, calls, faults, eff, snap0,
                 rep, last, passed, stored, file1, init0, bvars, tvars>>

\* ------------------------------------------------------ StateStore.is_seen
is_seen(p, k) == k \in snap[p]

\* ------------------------------------------------------ StateStore.add_many
\* (mutant) empty keys are kept
KeepEmpty(K) == K

\* keys = [k for k in keys if k]
Truthy(K) == {k \in K : k # <<>>}

\* the call with the key collection K; returns at once when no key is left
add_many_call(p, K) ==
  /\ keys' = Upd(keys, p, Truthy(K))
  /\ eff' = Upd(eff, p, "none")
  /\ snap0' = Upd(snap0, p, snap[p])
  /\ rep' = Upd(rep, p, last[p] = Truthy(K))
  /\ passed' = passed \cup Truthy(K)
  /\ UNCHANGED stored
  /\ calls' = calls + 1
  /\ IF Truthy(K) = {}
     THEN /\ pc' = Upd(pc, p, "idle")
          /\ Return(p, "ok")
          /\ last' = Upd(last, p, {})
          /\ file1' = Upd(file1, p, file)
     ELSE /\ pc' = Upd(pc, p, "a_lock")
          /\ UNCHANGED <<outcome, failed, last, file1>>

add_many(p) ==
  /\ pc[p] = "idle"
  /\ calls < MaxCalls
  /\ \E K \in SUBSET StoreKeys : add_many_call(p, K)
  /\ UNCHANGED <<file, tmp, lock, snap, buf, fd, err, faults, init0, bvars, tvars>>

\* os.open(lock_path, O_CREAT | O_EXCL | O_WRONLY) succeeds
acquire_lock(p) ==
  /\ pc[p] = "a_lock"
  /\ lock = 0
  /\ lock' = p
  /\ pc' = Upd(pc, p, "a_read")
  /\ UNCHANGED <<file, tmp, snap, keys, buf, fd, err, outcome, calls, faults,
                 eff, snap0, rep, last, passed, stored, failed, file1, init0, bvars, tvars>>

\* FileExistsError and time.time() - start > lock_timeout_s: TimeoutError
\* leaves add_many before its try block
lock_timeout(p) ==
  /\ pc[p] = "a_lock"
  /\ lock # 0
  /\ pc' = Upd(pc, p, "idle")
  /\ Return(p, "timeout")
  /\ UNCHANGED <<file, tmp, lock, snap, keys, buf, fd, err, calls, faults,
                 eff, snap0, rep, last, passed, stored, file1, init0, bvars, tvars>>

\* (mutant) merge into the snapshot loaded at store-open, not a fresh read
StaleSeen(p) == snap[p]

\* data = self._read(); seen = set(data.get("seen", []))
FreshSeen(p) == file.seen

\* (mutant) write whether or not a key is new
AlwaysChanged(p) == TRUE

\* changed: some key of the call is not in the set just read
Changed(p) == \E k \in keys[p] : k \notin FreshSeen(p)

\* data = self._read(); the loop over keys; if changed: ...
add_read(p) ==
  /\ pc[p] = "a_read"
  /\ IF file.kind = "doc"
     THEN /\ buf' = Upd(buf, p, FreshSeen(p) \cup keys[p])
          /\ pc' = Upd(pc, p, IF Changed(p) THEN "a_open" ELSE "a_release")
          /\ UNCHANGED <<err, outcome, failed>>
     ELSE /\ Raise(p)
          /\ UNCHANGED buf
  /\ UNCHANGED <<file, tmp, lock, snap, keys, fd, calls, faults, eff, snap0,
                 rep, last, passed, stored, file1, init0, bvars, tvars>>

add_open(p) ==
  /\ pc[p] = "a_open"
  /\ write_open(p, "a_dump")
  /\ UNCHANGED <<snap, keys, buf, err, outcome, calls, faults, snap0, rep,
                 passed, stored, failed, file1, init0, bvars, tvars>>

add_dump(p) ==
  /\ pc[p] = "a_dump"
  /\ write_dump(p, "a_replace")
  /\ UNCHANGED <<snap, keys, buf, err, outcome, calls, faults, snap0, rep,
                 passed, stored, failed, file1, init0, bvars, tvars>>

\* self._write(data) returns; self._data = data
add_replace(p) ==
  /\ pc[p] = "a_replace"
  /\ IF tmp.kind = "absent"
     THEN /\ Raise(p)
          /\ UNCHANGED <<file, tmp, lock, fd, eff, last, snap>>
     ELSE /\ write_replace(p, "a_release")
          /\ snap' = Upd(snap, p, buf[p])
          /\ UNCHANGED <<err, outcome, failed>>
  /\ UNCHANGED <<keys, buf, calls, faults, snap0, rep, passed, stored, file1, init0, bvars, tvars>>

\* finally: self._release_lock(); unlink(missing_ok=True) removes the lock
\* file whoever created it
release_lock(p) ==
  /\ pc[p] = "a_release"
  /\ lock' = 0
  /\ pc' = Upd(pc, p, "idle")
  /\ Return(p, IF err[p] THEN "ioerror" ELSE "ok")
  /\ err' = Upd(err, p, FALSE)
  /\ last' = Upd(last, p, IF err[p] THEN last[p] ELSE keys[p])
  /\ file1' = Upd(file1, p, IF err[p] THEN file1[p] ELSE file)
  /\ stored' = IF ~err[p] /\ eff[p] = "file" THEN stored \cup keys[p] ELSE stored
  /\ UNCHANGED <<file, tmp, snap, keys, buf, fd, calls, faults, eff, snap0,
                 rep, passed, init0, bvars, tvars>>

\* ------------------------------------------------- filesystem errors, crashes
\* open(self.path) or json.load raises OSError
read_error(p) ==
  /\ pc[p] \in {"c_read", "a_read"}
  /\ faults < MaxFaults
  /\ faults' = faults + 1
  /\ Raise(p)
  /\ UNCHANGED <<file, tmp, lock, snap, keys, buf, fd, calls, eff, snap0, rep,
                 last, passed, stored, file1, init0, bvars, tvars>>

\* open(tmp, "w") raises OSError: nothing is created or truncated
open_error(p) ==
  /\ pc[p] \in {"c_open", "a_open"}
  /\ faults < MaxFaults
  /\ faults' = faults + 1
  /\ Raise(p)
  /\ UNCHANGED <<file, tmp, lock, snap, keys, buf, fd, calls, eff, snap0, rep,
                 last, passed, stored, file1, init0, bvars, tvars>>

\* json.dump or close raises OSError part-way: an incomplete text is left in
\* the file the descriptor refers to
dump_error(p) ==
  /\ pc[p] \in {"c_dump", "a_dump"}
  /\ faults < MaxFaults
  /\ faults' = faults + 1
  /\ tmp' = IF fd[p] = "tmp" THEN Partial ELSE tmp
  /\ file' = IF fd[p] = "file" THEN Partial ELSE file
  /\ eff' = Upd(eff, p, IF fd[p] = "file" /\ file # Partial THEN "file" ELSE eff[p])
  /\ last' = Foreign(p, file')
  /\ fd' = Upd(fd, p, "none")
  /\ Raise(p)
  /\ UNCHANGED <<lock, snap, keys, buf, calls, snap0, rep, passed, stored, file1, init0, bvars, tvars>>

\* os.replace raises OSError: neither file changes
replace_error(p) ==
  /\ pc[p] \in {"c_replace", "a_replace"}
  /\ faults < MaxFaults
  /\ faults' = faults + 1
  /\ Raise(p)
  /\ UNCHANGED <<file, tmp, lock, snap, keys, buf, fd, calls, eff, snap0, rep,
                 last, passed, stored, file1, init0, bvars, tvars>>

\* the process dies inside a call: its descriptor is closed, unflushed text
\* is lost, and nothing of the call's remaining code runs
InCall == {"c_open", "c_dump", "c_replace", "c_read",
           "a_lock", "a_read", "a_open", "a_dump", "a_replace", "a_release"}

crash(p) ==
  /\ pc[p] \in InCall
  /\ faults < MaxFaults
  /\ faults' = faults + 1
  /\ pc' = Upd(pc, p, "crashed")
  /\ fd' = Upd(fd, p, "none")
  /\ failed' = TRUE
  /\ UNCHANGED <<file, tmp, lock, snap, keys, buf, err, outcome, calls, eff,
                 snap0, rep, last, passed, stored, file1, init0, bvars, tvars>>

\* ------------------------------------------------------ parser.py
\* characters of a header value; EncodedBlank stands for an RFC 2047 encoded
\* word whose decoded text is one space, such as =?utf-8?q?_?=
EncodedBlank == "=?q?_?="

\* _decode_str: str(make_header(decode_header(s)))
decode_str(s) == [i \in 1..Len(s) |-> IF s[i] = EncodedBlank THEN " " ELSE s[i]]

\* the whitespace characters of the model
IsSpace(c) == c \in {" ", "\n", "\r"}

RECURSIVE lstrip(_)
lstrip(s) == IF s # <<>> /\ IsSpace(Head(s)) THEN lstrip(Tail(s)) ELSE s

RECURSIVE rstrip(_)
rstrip(s) ==
  IF s # <<>> /\ IsSpace(s[Len(s)]) THEN rstrip(SubSeq(s, 1, Len(s) - 1)) ELSE s

\* str.strip()
strip(s) == rstrip(lstrip(s))

\* hashlib.sha256(raw_bytes).hexdigest(): distinct bytes have distinct
\* digests; the digest of the bytes named r is written r
sha256(raw) == raw

\* msg.get("Message-ID") under policy.default: the header's value without
\* its leading whitespace, its encoded words decoded; None (written <<>>,
\* falsy like the empty string) when the message has no such header
msg_get(m) == IF m.hasmid THEN decode_str(lstrip(m.mid)) ELSE <<>>

\* mid = msg.get("Message-ID") or ...; mid = _decode_str(mid) if mid else None;
\* if mid: return mid.strip(); return f"sha256:{sha}"
\* A message without the header has hasmid = FALSE.
message_id_or_hash(m) ==
  LET mid == IF msg_get(m) # <<>> THEN decode_str(msg_get(m)) ELSE <<>>
  IN  IF mid # <<>> THEN strip(mid) ELSE <<"sha256:", sha256(m.raw)>>

\* _to_utc_iso(internaldate_utc): the ISO text of a UTC instant
to_utc_iso(t) == <<t, "Z">>

\* EmailItem.receivedAt_dt: datetime.fromisoformat(receivedAt.replace("Z", "+00:00"))
receivedAt_dt(item) == item.receivedAt[1]

\* parse_email_bytes_to_item(raw, internaldate): (item, identity_key); of the
\* item the model keeps uid (which message it is), messageId and receivedAt
parse_email_bytes_to_item(m) ==
  [uid |-> m.uid, messageId |-> message_id_or_hash(m),
   receivedAt |-> to_utc_iso(m.at)]

\* ------------------------------------------------------ imap_client.py
\* instants are 0..MaxTime; a calendar day has DayLen instants
MaxTime == 3
DayLen == 2
Times == 0..MaxTime

\* to_imap_date
to_imap_date(t) == t \div DayLen

\* the mailbox of the upstream server, in ascending uid order: a message with
\* a Message-ID, one without, one whose Message-ID decodes to a blank, one
\* that cannot be parsed (bad), and one repeating the first Message-ID
Mailbox ==
  << [uid |-> 1, hasmid |-> TRUE,  mid |-> <<"a">>,          raw |-> "r1", at |-> 0, bad |-> FALSE],
     [uid |-> 2, hasmid |-> FALSE, mid |-> <<>>,             raw |-> "r2", at |-> 1, bad |-> FALSE],
     [uid |-> 3, hasmid |-> TRUE,  mid |-> <<EncodedBlank>>, raw |-> "r3", at |-> 1, bad |-> FALSE],
     [uid |-> 4, hasmid |-> TRUE,  mid |-> <<"b">>,          raw |-> "r4", at |-> 2, bad |-> TRUE],
     [uid |-> 5, hasmid |-> TRUE,  mid |-> <<" ", "a">>,     raw |-> "r5", at |-> 3, bad |-> FALSE] >>

\* search_uids_in_date_window: SINCE since.date() BEFORE (until + 1 day).date()
InSearch(m, s, u) ==
  /\ to_imap_date(s) <= to_imap_date(m.at)
  /\ to_imap_date(m.at) < to_imap_date(u + DayLen)

\* fetch_rfc822_and_internaldate over sorted(uids)
fetch_rfc822_and_internaldate(s, u) ==
  SelectSeq(Mailbox, LAMBDA m : InSearch(m, s, u))

\* ------------------------------------------------------ fetch_emails
\* the process that serves the batch calls, one at a time
BP == 1

\* (mutant) the window is open at both ends
InWindowStrict(item) == since < receivedAt_dt(item) /\ receivedAt_dt(item) < until

\* req.since <= item.receivedAt_dt <= req.until
InWindow(item) == since <= receivedAt_dt(item) /\ receivedAt_dt(item) <= until

\* history: a 200 response adds its window and the uids of its items
Logged(status, its) ==
  log' = IF status = 200
         THEN Append(log, [since |-> since, until |-> until,
                           uids |-> [i \in 1..Len(its) |-> its[i].uid]])
         ELSE log

\* the handler ends: its locals and the StateStore instance of the call
\* are dropped
EndCall(status, its) ==
  /\ Logged(status, its)
  /\ bpc' = "none"
  /\ since' = 0
  /\ until' = 0
  /\ cands' = <<>>
  /\ idx' = 1
  /\ items' = <<>>
  /\ newkeys' = <<>>
  /\ pc' = Upd(pc, BP, "new")
  /\ snap' = Upd(snap, BP, NotOpen)
  /\ outcome' = Upd(outcome, BP, "none")
  /\ keys' = Upd(keys, BP, {})
  /\ buf' = Upd(buf, BP, {})
  /\ eff' = Upd(eff, BP, "none")
  /\ snap0' = Upd(snap0, BP, NotOpen)
  /\ rep' = Upd(rep, BP, FALSE)
  /\ last' = Upd(last, BP, NoKeys)
  /\ file1' = Upd(file1, BP, Absent)
  /\ UNCHANGED <<file, tmp, lock, fd, err, calls, passed, stored, failed, init0, tvars>>

\* the request arrives: if req.since > req.until: HTTPException(400)
fetch_emails ==
  /\ bpc = "none"
  /\ pc[BP] = "new"
  /\ calls < MaxCalls
  /\ \E s, u \in Times :
       /\ since' = s
       /\ until' = u
       /\ bpc' = IF s > u THEN "rejected" ELSE "open"
  /\ UNCHANGED <<svars, cands, idx, items, newkeys, log, tvars>>

\* state = StateStore(settings.STATE_PATH)
open_store ==
  /\ bpc = "open"
  /\ outcome[BP] = "none"
  /\ StateStore_init(BP)

\* uids = imap.search_uids_in_date_window(...); imap.fetch_rfc822_and_internaldate
search_and_fetch ==
  /\ bpc = "open"
  /\ pc[BP] = "idle"
  /\ cands' = fetch_rfc822_and_internaldate(since, until)
  /\ idx' = 1
  /\ items' = <<>>
  /\ newkeys' = <<>>
  /\ bpc' = "loop"
  /\ UNCHANGED <<svars, since, until, log, tvars>>

\* ImapUpstreamError: HTTPException(502)
imap_error ==
  /\ bpc = "open"
  /\ pc[BP] = "idle"
  /\ faults < MaxFaults
  /\ faults' = faults + 1
  /\ EndCall(502, <<>>)

\* (mutant) a message that cannot be parsed ends the loop with an error
ParseErrorAborts(m) ==
  /\ bpc' = "failed"
  /\ UNCHANGED <<idx, items, newkeys>>

\* except Exception: logger.exception("parse_error"); continue
ParseErrorSkips(m) ==
  /\ idx' = idx + 1
  /\ UNCHANGED <<bpc, items, newkeys>>

\* (mutant) the key of a skipped message is remembered for the commit
SkipsButKeepsKey(item) ==
  /\ idx' = idx + 1
  /\ newkeys' = Append(newkeys, item.messageId)
  /\ UNCHANGED <<bpc, items>>

\* logger.info("skip_duplicate" / "skip_outside_window"); continue
Skips(item) ==
  /\ idx' = idx + 1
  /\ UNCHANGED <<bpc, items, newkeys>>

\* one iteration of the for loop
loop_step ==
  /\ bpc = "loop"
  /\ idx <= Len(cands)
  /\ LET m == cands[idx]
         item == parse_email_bytes_to_item(m)
     IN  IF m.bad
         THEN ParseErrorSkips(m)
         ELSE IF is_seen(BP, item.messageId) \/ ~InWindow(item)
              THEN Skips(item)
              ELSE /\ idx' = idx + 1
                   /\ items' = Append(items, item)
                   /\ newkeys' = Append(newkeys, item.messageId)
                   /\ UNCHANGED bpc
  /\ UNCHANGED <<svars, since, until, cands, log, tvars>>

Range(q) == {q[i] : i \in 1..Len(q)}

\* state.add_many(newly_seen_keys)
commit ==
  /\ bpc = "loop"
  /\ idx > Len(cands)
  /\ add_many_call(BP, Range(newkeys))
  /\ bpc' = "respond"
  /\ UNCHANGED <<file, tmp, lock, snap, buf, fd, err, faults, init0, since,
                 until, cands, idx, items, newkeys, log, tvars>>

\* return JSONResponse(resp.model_dump()), or HTTPException(400) raised for
\* since > until, or except Exception: HTTPException(500)
respond ==
  /\ \/ bpc = "respond" /\ pc[BP] = "idle"
     \/ bpc = "open" /\ pc[BP] = "new" /\ outcome[BP] = "ioerror"
     \/ bpc \in {"rejected", "failed"}
  /\ IF bpc = "respond" /\ outcome[BP] = "ok"
     THEN EndCall(200, items)
     ELSE IF bpc = "rejected" THEN EndCall(400, <<>>)
     ELSE EndCall(500, <<>>)
  /\ UNCHANGED faults

\* the server process is started again after it died
restart ==
  /\ pc[BP] = "crashed"
  /\ pc' = Upd(pc, BP, "new")
  /\ snap' = Upd(snap, BP, NotOpen)
  /\ outcome' = Upd(outcome, BP, "none")
  /\ err' = Upd(err, BP, FALSE)
  /\ bpc' = "none"
  /\ UNCHANGED <<file, tmp, lock, keys, buf, fd, calls, faults, eff, snap0, rep,
                 last, passed, stored, failed, file1, init0, since, until, cands, idx,
                 items, newkeys, log, tvars>>

\* ------------------------------------------------------ identity keys
\* values of a Message-ID header as they stand in the bytes
HeaderValues ==
  {<<>>, <<" ">>, <<"a">>, <<"b">>, <<" ", "a">>, <<"a", " ">>,
   <<EncodedBlank>>, <<EncodedBlank, "a">>}

\* what else the bytes hold
Rests == {"r1", "r2"}

\* messages: raw, the bytes, is the header and the rest
Messages ==
  {[hasmid |-> TRUE, mid |-> v, raw |-> <<"mid", v, r>>] :
     v \in HeaderValues, r \in Rests}
  \cup {[hasmid |-> FALSE, mid |-> <<>>, raw |-> <<"nomid", <<>>, r>>] : r \in Rests}

\* identity = _message_id_or_hash(raw_bytes, msg) for the next message
derive_identity ==
  /\ bpc = "identity"
  /\ idx <= Len(cands)
  /\ newkeys' = Append(newkeys, message_id_or_hash(cands[idx]))
  /\ idx' = idx + 1
  /\ UNCHANGED <<svars, bpc, since, until, cands, items, log, tvars>>

\* ------------------------------------------------------ utils.py
\* A body is a sequence of tokens: a token is one character ("x" a letter,
\* " ", "\n", "\r", ">") or one literal of the marker tables taken whole:
\* "On" (a word of _ON_WORDS), "wrote:" (a word of _WROTE_WORDS), "From:" (a
\* header name of the reply-header-block patterns, colon included) and
\* "Forwarded message" (the text of a marker-line pattern that is anchored
\* at the end of its line).  Offsets count tokens.
Alphabet == {"x", " ", "\n", "\r", ">", "On", "wrote:", "From:", "Forwarded message"}

\* longest body
MaxLen == 5

Bodies == UNION {[1..n -> Alphabet] : n \in 0..MaxLen}

None == -1

\* \w at the start of the token: every token but whitespace, ">" and ":"
IsWordStart(c) == c \notin {" ", "\n", "\r", ">", ":"}

Min(S) == CHOOSE k \in S : \A j \in S : k <= j

\* body_text.replace("\r\n", "\n").replace("\r", "\n")
RECURSIVE normalize_newlines(_)
normalize_newlines(t) ==
  IF t = <<>> THEN <<>>
  ELSE IF Head(t) = "\r"
       THEN IF Len(t) >= 2 /\ t[2] = "\n"
            THEN <<"\n">> \o normalize_newlines(SubSeq(t, 3, Len(t)))
            ELSE <<"\n">> \o normalize_newlines(Tail(t))
       ELSE <<Head(t)>> \o normalize_newlines(Tail(t))

\* text.split("\n")
RECURSIVE split_lines(_)
split_lines(t) ==
  IF \A i \in 1..Len(t) : t[i] # "\n" THEN <<t>>
  ELSE LET k == Min({i \in 1..Len(t) : t[i] = "\n"})
       IN  <<SubSeq(t, 1, k - 1)>> \o split_lines(SubSeq(t, k + 1, Len(t)))

\* "\n".join(lines)
RECURSIVE join_lines(_)
join_lines(ls) ==
  IF ls = <<>> THEN <<>>
  ELSE IF Len(ls) = 1 THEN ls[1]
  ELSE ls[1] \o <<"\n">> \o join_lines(Tail(ls))

\* offsets: pos += len(ln) + 1
RECURSIVE line_offset(_, _)
line_offset(lines, i) ==
  IF i = 1 THEN 0 ELSE line_offset(lines, i - 1) + Len(lines[i - 1]) + 1

\* the first index from i on whose token is not whitespace (\s*)
RECURSIVE skip_space(_, _)
skip_space(t, i) ==
  IF i <= Len(t) /\ IsSpace(t[i]) THEN skip_space(t, i + 1) ELSE i

\* \s*>?\s* from index i: the index where the marker text must begin
after_quote_prefix(t, i) ==
  LET a == skip_space(t, i)
  IN  IF a <= Len(t) /\ t[a] = ">" THEN skip_space(t, a + 1) ELSE a

\* _ON_WORDS, each literal one token; the literals outside ASCII are written
\* in ASCII ("V" for the Russian and "Stis" for the Greek starter)
ON_WORDS == {"On", "Am", "Le", "El", "Il", "Em", "Op", "W dniu", "V", "Stis"}

\* _WROTE_WORDS, each literal with its colon one token (the \s* before the
\* colon taken as written in the locale's line); the literals outside ASCII
\* are written in ASCII
WROTE_WORDS == {"wrote:", "schrieb:", "ecrit :", "escribio:", "ha scritto:",
                "escreveu:", "schreef:", "napisal:", "pisal:", "egrapse:"}

\* on_re.search(ln): (?i)^\s*>?\s*(On|...)\b
on_re(ln) ==
  LET a == after_quote_prefix(ln, 1)
  IN  /\ a <= Len(ln)
      /\ ln[a] \in ON_WORDS
      /\ (a = Len(ln) \/ ~IsWordStart(ln[a + 1]))

\* wrote_re.search(ln.strip()): (?i)(wrote:|...)\s*$
wrote_re(ln) ==
  LET st == strip(ln) IN st # <<>> /\ st[Len(st)] \in WROTE_WORDS

\* line i opens an "On ... wrote:" marker: the wrote word ends the same line
\* or one of the next two
opener_qualifies(lines, i) ==
  /\ on_re(lines[i])
  /\ \/ wrote_re(lines[i])
     \/ \E j \in {i + 1, i + 2} : j <= Len(lines) /\ wrote_re(lines[j])

\* the for loop of _find_on_wrote_marker_index from line i on
RECURSIVE on_wrote_scan(_, _)
on_wrote_scan(lines, i) ==
  IF i > Len(lines) THEN None
  ELSE IF opener_qualifies(lines, i) THEN line_offset(lines, i)
  ELSE on_wrote_scan(lines, i + 1)

find_on_wrote_marker_index(text) == on_wrote_scan(split_lines(text), 1)

\* _MARKER_LINE_PATTERNS, one pattern of each shape:
\*   "forwarded": (?im)^\s*>?\s*Forwarded message\s*$
\*   "from":      (?im)^\s*>?\s*From:\s+
MARKER_LINE_PATTERNS == <<"forwarded", "from">>

\* ^ under (?m): the start of the text or just after a newline
at_line_start(t, k) == k = 1 \/ (k > 1 /\ k <= Len(t) + 1 /\ t[k - 1] = "\n")

\* $ under (?m): the end of the text or just before a newline
at_line_end(t, k) == k = Len(t) + 1 \/ (k <= Len(t) /\ t[k] = "\n")

\* pat matches with its first token at index k
pattern_matches_at(pat, t, k) ==
  /\ k <= Len(t)
  /\ at_line_start(t, k)
  /\ LET a == after_quote_prefix(t, k)
     IN  IF pat = "forwarded"
         THEN /\ a <= Len(t) /\ t[a] = "Forwarded message"
              /\ \E e \in (a + 1)..skip_space(t, a + 1) : at_line_end(t, e)
         ELSE /\ a <= Len(t) /\ t[a] = "From:"
              /\ a + 1 <= Len(t) /\ IsSpace(t[a + 1])

\* pat.search(text): m.start() of the leftmost match, or None
RECURSIVE pattern_search(_, _, _)
pattern_search(pat, t, k) ==
  IF k > Len(t) THEN None
  ELSE IF pattern_matches_at(pat, t, k) THEN k - 1
  ELSE pattern_search(pat, t, k + 1)

\* for pat in _MARKER_LINE_PATTERNS: if m: if cut_idx is None or m.start() < cut_idx
RECURSIVE marker_loop(_, _, _)
marker_loop(text, c, n) ==
  IF n > Len(MARKER_LINE_PATTERNS) THEN c
  ELSE LET m == pattern_search(MARKER_LINE_PATTERNS[n], text, 1)
       IN  marker_loop(text, IF m # None /\ (c = None \/ m < c) THEN m ELSE c, n + 1)

\* (mutant) an "On ... wrote:" marker, when there is one, decides the cut
cut_index_on_wrote_first(text) ==
  LET w == find_on_wrote_marker_index(text)
  IN  IF w # None THEN w ELSE marker_loop(text, None, 1)

\* step 2 of extract_latest_reply_text: cut_idx
cut_index(text) == marker_loop(text, find_on_wrote_marker_index(text), 1)

\* the text after its leading newlines
RECURSIVE lstrip_newlines(_)
lstrip_newlines(t) ==
  IF t # <<>> /\ Head(t) = "\n" THEN lstrip_newlines(Tail(t)) ELSE t

\* re.sub(r"\n{3,}", "\n\n", s)
RECURSIVE collapse_blank_lines(_)
collapse_blank_lines(t) ==
  IF Len(t) >= 3 /\ t[1] = "\n" /\ t[2] = "\n" /\ t[3] = "\n"
  THEN LET rest == lstrip_newlines(t) IN <<"\n", "\n">> \o collapse_blank_lines(rest)
  ELSE IF t = <<>> THEN <<>>
  ELSE <<Head(t)>> \o collapse_blank_lines(Tail(t))

\* kept_lines: the lines whose lstrip() does not start with ">"
RECURSIVE kept_lines(_)
kept_lines(lines) ==
  IF lines = <<>> THEN <<>>
  ELSE LET l == lstrip(Head(lines))
       IN  IF l # <<>> /\ Head(l) = ">"
           THEN kept_lines(Tail(lines))
           ELSE <<Head(lines)>> \o kept_lines(Tail(lines))

\* (mutant) no fallback: the cleaned text is returned even when it is empty
clean_top_part_no_fallback(tp) ==
  collapse_blank_lines(strip(join_lines(kept_lines(split_lines(tp)))))

\* steps 3 to 5 of extract_latest_reply_text
clean_top_part(tp) ==
  LET cleaned == collapse_blank_lines(strip(join_lines(kept_lines(split_lines(tp)))))
  IN  IF cleaned = <<>> THEN collapse_blank_lines(strip(tp)) ELSE cleaned

\* top_part = text if cut_idx is None else text[:cut_idx]
top_part(text) ==
  LET c == cut_index(text) IN IF c = None THEN text ELSE SubSeq(text, 1, c)

\* the value extract_latest_reply_text returns for the body b
latest_reply_text(b) == clean_top_part(top_part(normalize_newlines(b)))

\* extract_latest_reply_text(body_text): steps 1 and 2 normalize the
\* newlines, find the cut and take the top part; steps 3 to 5 give the
\* returned text
extract_latest_reply_text ==
  /\ tpc = "start"
  /\ \E text \in {normalize_newlines(body)} :
       \E c \in {cut_index(text)} :
         \E tp \in {IF c = None THEN text ELSE SubSeq(text, 1, c)} :
           /\ cut' = c
           /\ top' = tp
           /\ result' = clean_top_part(tp)
  /\ tpc' = "done"
  /\ UNCHANGED <<body, svars, bvars>>

\* ------------------------------------------------------ specifications
\* what the state path may hold before any process of the model runs
InitialSeen == {{}, {<<"a">>}}

InitStoreVars ==
  /\ tmp = Absent
  /\ lock = 0
  /\ keys = [p \in Procs |-> {}]
  /\ buf = [p \in Procs |-> {}]
  /\ fd = [p \in Procs |-> "none"]
  /\ err = [p \in Procs |-> FALSE]
  /\ outcome = [p \in Procs |-> "none"]
  /\ calls = 0
  /\ faults = 0
  /\ eff = [p \in Procs |-> "none"]
  /\ rep = [p \in Procs |-> FALSE]
  /\ last = [p \in Procs |-> NoKeys]
  /\ passed = {}
  /\ stored = {}
  /\ failed = FALSE
  /\ file1 = [p \in Procs |-> Absent]

\* no batch call is in progress
NoBatch ==
  /\ bpc = "none"
  /\ since = 0
  /\ until = 0
  /\ cands = <<>>
  /\ idx = 1
  /\ items = <<>>
  /\ newkeys = <<>>
  /\ log = <<>>

InitCommon == InitStoreVars /\ NoBatch

\* no text is being extracted
NoText ==
  /\ tpc = "idle"
  /\ body = <<>>
  /\ cut = None
  /\ top = <<>>
  /\ result = <<>>

\* no process has constructed its StateStore; the state file may not exist
Init ==
  /\ InitCommon
  /\ NoText
  /\ file \in {Absent} \cup {Doc(S) : S \in InitialSeen}
  /\ init0 = file.seen
  /\ pc = [p \in Procs |-> "new"]
  /\ snap = [p \in Procs |-> NotOpen]
  /\ snap0 = snap

Next ==
  \E p \in Procs :
    \/ StateStore_init(p)
    \/ init_open(p)
    \/ init_dump(p)
    \/ init_replace(p)
    \/ init_read(p)
    \/ add_many(p)
    \/ acquire_lock(p)
    \/ lock_timeout(p)
    \/ add_read(p)
    \/ add_open(p)
    \/ add_dump(p)
    \/ add_replace(p)
    \/ release_lock(p)
    \/ read_error(p)
    \/ open_error(p)
    \/ dump_error(p)
    \/ replace_error(p)
    \/ crash(p)

Spec == Init /\ [][Next]_vars

\* every process holds an open StateStore; each loaded its snapshot when the
\* file held some part of what it holds now
InitOpen ==
  /\ InitCommon
  /\ NoText
  /\ file \in {Doc(S) : S \in InitialSeen}
  /\ init0 = file.seen
  /\ pc = [p \in Procs |-> "idle"]
  /\ snap \in [Procs -> SUBSET file.seen]
  /\ snap0 = snap

NextOpen ==
  \E p \in Procs :
    \/ add_many(p)
    \/ acquire_lock(p)
    \/ lock_timeout(p)
    \/ add_read(p)
    \/ add_open(p)
    \/ add_dump(p)
    \/ add_replace(p)
    \/ release_lock(p)
    \/ read_error(p)
    \/ open_error(p)
    \/ dump_error(p)
    \/ replace_error(p)
    \/ crash(p)

SpecOpen == InitOpen /\ [][NextOpen]_vars

\* batch calls served one after the other by one process; the state file may
\* hold keys of earlier calls
NextBatch ==
  \/ fetch_emails
  \/ open_store
  \/ init_open(BP)
  \/ init_dump(BP)
  \/ init_replace(BP)
  \/ init_read(BP)
  \/ search_and_fetch
  \/ imap_error
  \/ loop_step
  \/ commit
  \/ acquire_lock(BP)
  \/ lock_timeout(BP)
  \/ add_read(BP)
  \/ add_open(BP)
  \/ add_dump(BP)
  \/ add_replace(BP)
  \/ release_lock(BP)
  \/ respond
  \/ read_error(BP)
  \/ open_error(BP)
  \/ dump_error(BP)
  \/ replace_error(BP)
  \/ crash(BP)
  \/ restart

SpecBatch == Init /\ [][NextBatch]_vars

\* extract_latest_reply_text applied to every body of at most MaxLen tokens
InitText ==
  /\ InitCommon
  /\ tpc = "start"
  /\ body \in Bodies
  /\ cut = None
  /\ top = <<>>
  /\ result = <<>>
  /\ file = Absent
  /\ init0 = {}
  /\ pc = [p \in Procs |-> "new"]
  /\ snap = [p \in Procs |-> NotOpen]
  /\ snap0 = snap

NextText == extract_latest_reply_text

\* the identity keys of every pair of messages
InitIdentity ==
  /\ InitStoreVars
  /\ NoText
  /\ bpc = "identity"
  /\ cands \in [1..2 -> Messages]
  /\ idx = 1
  /\ newkeys = <<>>
  /\ items = <<>>
  /\ since = 0
  /\ until = 0
  /\ log = <<>>
  /\ file = Absent
  /\ init0 = {}
  /\ pc = [p \in Procs |-> "new"]
  /\ snap = [p \in Procs |-> NotOpen]
  /\ snap0 = snap

SpecIdentity == InitIdentity /\ [][derive_identity]_vars

\* the reply-attribution lines of the locales: the starter, the wrote word
\* with its colon, and the wrote word alone
LOCALES ==
  << [on |-> "On", wrote |-> "wrote:",      bare |-> "wrote"],
     [on |-> "Am", wrote |-> "schrieb:",    bare |-> "schrieb"],
     [on |-> "Le", wrote |-> "ecrit :",     bare |-> "ecrit"],
     [on |-> "El", wrote |-> "escribio:",   bare |-> "escribio"],
     [on |-> "Il", wrote |-> "ha scritto:", bare |-> "ha scritto"],
     [on |-> "Em", wrote |-> "escreveu:",   bare |-> "escreveu"],
     [on |-> "Op", wrote |-> "schreef:",    bare |-> "schreef"] >>

\* "same": <starter> <date> <sender> <wrote word>:
\* "split": <starter> <date> <sender>, the wrote word on the next line
\* "sender": <starter> <date> <wrote word> <sender>:
Forms == {"same", "split", "sender"}

AttributionLine(l, f) ==
  IF f = "same" THEN <<l.on, " ", "x", " ", l.wrote>>
  ELSE IF f = "split" THEN <<l.on, " ", "x", "\n", l.wrote>>
  ELSE <<l.on, " ", "x", " ", l.bare, " ", "x", ":">>

TopTexts == {<<"x">>, <<"x", " ", "x">>, <<"x", "\n", "x">>, <<"x", "\n", "\n", "x">>}

QuotedLines == {<<">", " ", "x", "\n">>,
                <<">", "x", "\n", ">", "x", "\n">>,
                <<">", "x">>}

\* <top text>, blank line, attribution line, quoted lines
LocaleBody(l, f, t, q) == t \o <<"\n", "\n">> \o AttributionLine(l, f) \o <<"\n">> \o q

LocaleBodies ==
  {LocaleBody(LOCALES[n], f, t, q) :
     n \in 1..Len(LOCALES), f \in Forms, t \in TopTexts, q \in QuotedLines}

\* extract_latest_reply_text applied to the replies of every locale
InitLocale ==
  /\ InitCommon
  /\ tpc = "start"
  /\ body \in LocaleBodies
  /\ cut = None
  /\ top = <<>>
  /\ result = <<>>
  /\ file = Absent
  /\ init0 = {}
  /\ pc = [p \in Procs |-> "new"]
  /\ snap = [p \in Procs |-> NotOpen]
  /\ snap0 = snap

SpecLocale == InitLocale /\ [][NextText]_vars

SpecText ==
  /\ InitText
  /\ [][NextText]_vars

\* ------------------------------------------------------ claims: the store
AddPcs == {"a_lock", "a_read", "a_open", "a_dump", "a_replace", "a_release"}
\* between _acquire_lock returning and _release_lock
Critical == {"a_read", "a_open", "a_dump", "a_replace", "a_release"}
Quiescent == \A p \in Procs : pc[p] = "idle"

\* C2: once every add_many call of the already-open instances has returned
\* successfully, the state file holds exactly the initial keys and every
\* non-empty key passed to any call.
C2_MergeKeepsAllKeys ==
  (Quiescent /\ ~failed) => file = Doc(init0 \cup passed)

\* two processes have each added a key the other did not pass
C2_Witness ==
  /\ Quiescent /\ ~failed /\ calls = 2
  /\ outcome[1] = "ok" /\ outcome[2] = "ok"
  /\ keys[1] = {<<"a">>} /\ keys[2] = {<<"b">>}
  /\ init0 = {}
  /\ file = Doc({<<"a">>, <<"b">>})

\* C3: the state file is never a half-written document.
C3_DurableFileComplete == file.kind \in {"absent", "doc"}

\* C4: a failed add_many (lock timeout, read or write error) has not changed
\* the state file and has left the in-memory snapshot as it was.
C4_FailedCallChangesNothing ==
  \A p \in Procs :
    (pc[p] = "idle" /\ outcome[p] \in {"timeout", "ioerror"})
      => (eff[p] # "file" /\ snap[p] = snap0[p])

\* C5: a second add_many with the key set of the previous successful call,
\* no other writer having changed the file since, performs no write and
\* leaves the state file as the first call left it.
C5_SecondCallWritesNothing ==
  \A p \in Procs :
    (pc[p] = "a_release" /\ ~err[p] /\ rep[p] /\ last[p] = keys[p])
      => (eff[p] = "none" /\ file = file1[p])

\* the repeated call has taken the lock and read the file
C5_Witness ==
  \E p \in Procs :
    /\ pc[p] = "a_release" /\ ~err[p] /\ rep[p] /\ last[p] = keys[p]
    /\ keys[p] = {<<"a">>, <<"b">>}
    /\ lock = p

\* C6 as stated: a call whose keys are all already known returns without
\* the lock file, so it never ends in a lock timeout.
C6_KnownKeysNeverTimeOut ==
  \A p \in Procs :
    (pc[p] = "idle" /\ outcome[p] = "timeout") => ~(keys[p] \subseteq snap0[p])

\* C6 amended: only a call left without keys returns without the lock; a
\* call whose keys are all already known takes the lock and re-reads, then
\* releases without writing and without changing its snapshot.
C6_OnlyEmptySkipsLock ==
  \A p \in Procs :
    /\ (pc[p] \in AddPcs => \E k \in keys[p] : k # <<>>)
    /\ (pc[p] = "a_release" /\ ~err[p] /\ keys[p] \subseteq snap0[p])
         => (lock = p /\ eff[p] = "none" /\ snap[p] = snap0[p])

\* a call with only known keys is waiting while the other process holds the lock
C6_Witness ==
  \E p, q \in Procs :
    /\ pc[p] = "a_lock" /\ keys[p] # {} /\ keys[p] \subseteq snap0[p]
    /\ lock = q /\ q # p

Uids(q) == [i \in 1..Len(q) |-> q[i].uid]

\* the seen-set snapshot the call loaded when it opened the store
OpenSnapshot == IF bpc = "respond" THEN snap0[BP] ELSE snap[BP]

\* parsed, not in the snapshot, and since <= receivedAt <= until
Accepted(m) ==
  /\ ~m.bad
  /\ message_id_or_hash(m) \notin OpenSnapshot
  /\ since <= m.at /\ m.at <= until

LoopDone == (bpc = "loop" /\ idx > Len(cands)) \/ bpc = "respond"

\* C1: of two finished batch calls, the later one over a window containing
\* the earlier one's, no message returned by the earlier call is returned by
\* the later call.
C1_NoReappearance ==
  \A i, j \in 1..Len(log) :
    (/\ i < j
     /\ log[j].since <= log[i].since /\ log[i].until <= log[j].until)
      => Range(log[i].uids) \cap Range(log[j].uids) = {}

\* C8: when the loop has ended, items holds exactly the fetched messages that
\* parsed, were not in the snapshot loaded at open and lie in [since, until],
\* both ends included, in the order they were supplied.
C8_ResultIsFilteredCandidates ==
  LoopDone => Uids(items) = Uids(SelectSeq(cands, Accepted))

\* a message received at since and one received at until are returned, and
\* some candidate is not
C8_Witness ==
  /\ bpc = "respond" /\ since < until
  /\ \E i, j \in 1..Len(items) :
       receivedAt_dt(items[i]) = since /\ receivedAt_dt(items[j]) = until
  /\ Len(items) < Len(cands)

\* C9: a candidate that fails to decode is skipped and nothing else: every
\* candidate before the loop's position has been handled, the call leaves the
\* loop only after the last candidate, and it goes on to the add_many commit
\* of the keys of the items.
C9_DecodeFailureSkipsOneMessage ==
  (bpc \in {"loop", "respond", "failed"}) =>
    /\ Uids(items) = Uids(SelectSeq(SubSeq(cands, 1, idx - 1), Accepted))
    /\ bpc # "loop" => (bpc = "respond" /\ idx = Len(cands) + 1
                         /\ keys[BP] = Truthy(Range(newkeys)))

\* a message after the undecodable one is in the result, the commit has
\* written the state file and add_many has returned normally
C9_Witness ==
  /\ bpc = "respond" /\ pc[BP] = "idle" /\ outcome[BP] = "ok"
  /\ eff[BP] = "file"
  /\ \E i, j \in 1..Len(cands) :
       /\ i < j /\ cands[i].bad
       /\ cands[j].uid \in Range(Uids(items))

\* ------------------------------------------------------ claims: the extractor
\* r is t with some tokens deleted
RECURSIVE IsSubsequence(_, _)
IsSubsequence(r, t) ==
  IF r = <<>> THEN TRUE
  ELSE IF t = <<>> THEN FALSE
  ELSE IF Head(r) = Head(t) THEN IsSubsequence(Tail(r), Tail(t))
  ELSE IsSubsequence(r, Tail(t))

\* the offsets at which a marker of either family starts
MarkerOffsets(t) ==
  LET lines == split_lines(t)
  IN  {k \in 0..Len(t) :
         \/ \E i \in 1..Len(lines) :
              line_offset(lines, i) = k /\ opener_qualifies(lines, i)
         \/ \E n \in 1..Len(MARKER_LINE_PATTERNS) :
              pattern_matches_at(MARKER_LINE_PATTERNS[n], t, k + 1)}

\* C10: the top part ends at the smallest offset at which an "On ... wrote:"
\* opener line or a fixed marker-line match starts, and is the whole
\* newline-normalized body when there is none; the returned text is made of
\* tokens of the top part only.
C10_CutAtEarliestMarker ==
  (tpc = "done") =>
    \A t \in {normalize_newlines(body)} :
      \A M \in {MarkerOffsets(t)} :
        /\ top = SubSeq(t, 1, IF M = {} THEN Len(t) ELSE Min(M))
        /\ (M = {}) <=> (cut = None)
        /\ IsSubsequence(result, top)

\* both families have a marker and the fixed marker line comes first
C10_Witness ==
  /\ tpc = "done"
  /\ find_on_wrote_marker_index(normalize_newlines(body)) # None
  /\ cut # None
  /\ cut < find_on_wrote_marker_index(normalize_newlines(body))

\* some line of t begins with ">"
HasQuoteLine(t) ==
  \E i \in 1..Len(t) : t[i] = ">" /\ (i = 1 \/ t[i - 1] = "\n")

\* no run of three newlines
NoLongBlankRun(t) ==
  \A i \in 1..(Len(t) - 2) : ~(t[i] = "\n" /\ t[i + 1] = "\n" /\ t[i + 2] = "\n")

\* C11: when the top part without its quoted lines is empty after trimming,
\* the returned text is the whole top part, trimmed, with runs of three or
\* more newlines collapsed to two; otherwise it is the top part without its
\* quoted lines, trimmed and collapsed, and no line of it begins with ">".
C11_FallbackKeepsQuotedTopPart ==
  (tpc = "done") =>
    \A unquoted \in {strip(join_lines(kept_lines(split_lines(top))))} :
      /\ NoLongBlankRun(result)
      /\ IF unquoted = <<>>
         THEN result = collapse_blank_lines(strip(top))
         ELSE /\ result = collapse_blank_lines(unquoted)
              /\ ~HasQuoteLine(result)

\* the top part holds quoted lines only and the returned text keeps them
C11_Witness ==
  /\ tpc = "done"
  /\ cut # None
  /\ strip(join_lines(kept_lines(split_lines(top)))) = <<>>
  /\ HasQuoteLine(result)
  /\ Len(result) >= 2

\* C12: for the attribution line of every supported locale, in each of its
\* forms (the form with the sender and the colon after the wrote word
\* included), the body <top text>, blank line, attribution line, quoted
\* lines gives exactly <top text>.
C12_LocaleReplyGivesTopText ==
  (tpc = "done") =>
    \A n \in 1..Len(LOCALES), f \in Forms, t \in TopTexts, q \in QuotedLines :
      body = LocaleBody(LOCALES[n], f, t, q) => result = t

\* C13: for a body without a line beginning with ">" and without a marker of
\* either family, extracting from the returned text returns it unchanged.
C13_IdempotentWithoutMarkers ==
  (tpc = "done") =>
    \A t \in {normalize_newlines(body)} :
      (~HasQuoteLine(t) /\ cut = None /\ MarkerOffsets(t) = {})
        => latest_reply_text(result) = result

\* ------------------------------------------------------ claims: identity keys
\* the Message-ID of m after decoding and trimming; <<>> when m has none
TrimmedMessageId(m) == IF m.hasmid THEN strip(decode_str(m.mid)) ELSE <<>>

\* C14: the key is the trimmed Message-ID when that is not empty, and
\* otherwise "sha256:" with the digest of the bytes; so it is never empty,
\* equal Message-IDs give equal keys, and messages without one and with
\* different bytes give different keys.
C14_IdentityKeyDerivation ==
  (bpc = "identity") =>
    /\ \A i \in 1..Len(newkeys) :
         /\ newkeys[i] = IF TrimmedMessageId(cands[i]) # <<>>
                         THEN TrimmedMessageId(cands[i])
                         ELSE <<"sha256:", sha256(cands[i].raw)>>
         /\ newkeys[i] # <<>>
    /\ Len(newkeys) = 2 =>
         /\ (TrimmedMessageId(cands[1]) # <<>>
               /\ TrimmedMessageId(cands[1]) = TrimmedMessageId(cands[2]))
              => newkeys[1] = newkeys[2]
         /\ (TrimmedMessageId(cands[1]) = <<>> /\ TrimmedMessageId(cands[2]) = <<>>
               /\ cands[1].raw # cands[2].raw)
              => newkeys[1] # newkeys[2]

\* ------------------------------------------------------ claims: the seen-set
\* C15: a key that an add_many call wrote to the state file before returning
\* normally is in the state file in every later state.
C15_PersistedKeysStay == stored \subseteq file.seen

\* C16: after add_many has returned normally on an instance, is_seen is
\* true on that instance for every non-empty key of the call.
C16_SeenAfterAddMany ==
  \A p \in Procs :
    (pc[p] = "idle" /\ outcome[p] = "ok") => \A k \in keys[p] : is_seen(p, k)

\* ------------------------------------------------------ claims: the batch result
\* C17: no two records of the result of one batch call have the same
\* identity key.
C17_NoDuplicateKeysInBatch ==
  (bpc \in {"loop", "respond"}) =>
    \A i, j \in 1..Len(items) :
      i # j => items[i].messageId # items[j].messageId

\* the identity keys of the records of the result
ItemKeys == {items[i].messageId : i \in 1..Len(items)}

\* a candidate the loop skipped: it failed to decode or was received outside
\* [since, until]
Skipped(m) == m.bad \/ ~(since <= m.at /\ m.at <= until)

====
